---- MODULE Spec2Model ----
(***************************************************************************)
(* milestoner: the scheduled-post store (tools/schedule_post.py), the      *)
(* optimal-time advisor (scheduling.py) and the activity aggregator        *)
(* (git/history.py).                                                       *)
(*                                                                         *)
(* Time.  The clock counts whole hours (UTC) since 2025-09-01T00:00, a     *)
(* Monday; every clock reading falls on a full hour, so minutes, seconds   *)
(* and microseconds are zero in every timestamp.  A timestamp string is    *)
(* kept as the sequence of its character codes, cut down to the fields     *)
(* that vary: "DD" day of month, one separator character, "HH" hour and    *)
(* an optional UTC offset sign and "hh" ("2025-09-" before and ":00:00"    *)
(* between are the same in every string and are left out).  Strings are    *)
(* compared as Python compares str: code by code, a proper prefix first.   *)
(***************************************************************************)
EXTENDS Integers, Sequences, FiniteSets, TLC

VARIABLES
    exists,       \* scheduled-posts.json is on disk
    posts,        \* data["posts"] of scheduled-posts.json, in file order
    clock,        \* the system clock: hours (UTC) since 2025-09-01T00:00
    localOffset,  \* UTC offset in hours of the machine's local time zone
    input,        \* the argument a function of git/history.py is called with
    result        \* what the last call returned

vars == <<exists, posts, clock, localOffset, input, result>>

-----------------------------------------------------------------------------
(* Bounds of the model *)

MaxPosts == 2
MaxTicks == 1

-----------------------------------------------------------------------------
(* Characters and strings *)

Ord(c) ==
    CASE c = " " -> 32
      [] c = "+" -> 43
      [] c = "-" -> 45
      [] c = "0" -> 48
      [] c = "9" -> 57
      [] c = "T" -> 84
      [] c = "Z" -> 90
      [] c = "x" -> 120
      [] c = "1" -> 49
      [] c = "2" -> 50
      [] c = "3" -> 51
      [] c = "7" -> 55
      [] c = "8" -> 56
      [] c = "A" -> 65
      [] c = "E" -> 69
      [] c = "K" -> 75
      [] c = "S" -> 83
      [] c = "W" -> 87
      [] c = "a" -> 97
      [] c = "b" -> 98
      [] c = "d" -> 100
      [] c = "e" -> 101
      [] c = "g" -> 103
      [] c = "h" -> 104
      [] c = "k" -> 107
      [] c = "m" -> 109
      [] c = "n" -> 110
      [] c = "o" -> 111
      [] c = "r" -> 114
      [] c = "s" -> 115
      [] c = "t" -> 116
      [] c = "u" -> 117
      [] c = "w" -> 119
      [] c = "y" -> 121

\* a string literal, written character by character
Str(chars) == [i \in 1..Len(chars) |-> Ord(chars[i])]

IsDigit(k) == Ord("0") <= k /\ k <= Ord("9")

DigitVal(k) == k - Ord("0")

\* "%02d"
TwoDigits(n) == <<Ord("0") + (n \div 10), Ord("0") + (n % 10)>>

TwoDigitVal(s, i) == 10 * DigitVal(s[i]) + DigitVal(s[i + 1])

\* Python's str <= str
StrLE(a, b) ==
    LET n    == IF Len(a) <= Len(b) THEN Len(a) ELSE Len(b)
        diff == {i \in 1..n : a[i] # b[i]}
    IN  IF diff = {}
        THEN Len(a) <= Len(b)
        ELSE LET k == CHOOSE i \in diff : \A j \in diff : i <= j
             IN  a[k] < b[k]

\* Python's str >= str
StrGE(a, b) == StrLE(b, a)

RECURSIVE ReplaceZ(_)
\* s.replace("Z", "+00:00")
ReplaceZ(s) ==
    IF s = <<>>
    THEN <<>>
    ELSE (IF Head(s) = Ord("Z")
          THEN <<Ord("+")>> \o TwoDigits(0)
          ELSE <<Head(s)>>) \o ReplaceZ(Tail(s))

-----------------------------------------------------------------------------
(* datetime *)

HoursPerDay == 24
DaysPerWeek == 7
DaysInMonth == 30

\* US/Eastern in September 2025 is EDT, UTC-04:00
EasternOffset == 0 - 4

\* the wall-clock datetime of an instant (hours UTC) in a zone of offset off
WallTime(t, off) ==
    [day    |-> ((t + off) \div HoursPerDay) + 1,
     hour   |-> (t + off) % HoursPerDay,
     aware  |-> FALSE,
     offset |-> 0]

\* datetime.now(): naive local time
NowLocal == WallTime(clock, localOffset)

\* datetime.now(tz) for tz = US/Eastern: aware
NowIn(off) == [WallTime(clock, off) EXCEPT !.aware = TRUE, !.offset = off]

\* datetime.weekday(): 0 = Monday; 2025-09-01 is a Monday
Weekday(dt) == (dt.day - 1) % DaysPerWeek

\* datetime.isoformat()
IsoFormat(dt) ==
    TwoDigits(dt.day) \o <<Ord("T")>> \o TwoDigits(dt.hour)
    \o (IF dt.aware
        THEN <<IF dt.offset < 0 THEN Ord("-") ELSE Ord("+")>>
             \o TwoDigits(IF dt.offset < 0 THEN 0 - dt.offset ELSE dt.offset)
        ELSE <<>>)

\* datetime.strftime("%Y%m%d%H%M%S%f")
StrfTime(dt) == TwoDigits(dt.day) \o TwoDigits(dt.hour)

\* datetime.fromisoformat(s) does not raise ValueError
IsIsoFormat(s) ==
    /\ Len(s) \in {5, 8}
    /\ IsDigit(s[1]) /\ IsDigit(s[2])
    /\ TwoDigitVal(s, 1) \in 1..DaysInMonth
    /\ IsDigit(s[4]) /\ IsDigit(s[5])
    /\ TwoDigitVal(s, 4) \in 0..(HoursPerDay - 1)
    /\ Len(s) = 8 =>
          /\ s[6] \in {Ord("+"), Ord("-")}
          /\ IsDigit(s[7]) /\ IsDigit(s[8])
          /\ TwoDigitVal(s, 7) \in 0..(HoursPerDay - 1)

\* datetime.fromisoformat(s), for s that parses
FromIsoFormat(s) ==
    [day    |-> TwoDigitVal(s, 1),
     hour   |-> TwoDigitVal(s, 4),
     aware  |-> Len(s) = 8,
     offset |-> IF Len(s) = 8
                THEN (IF s[6] = Ord("-") THEN 0 - TwoDigitVal(s, 7)
                                         ELSE TwoDigitVal(s, 7))
                ELSE 0]

-----------------------------------------------------------------------------
(* scheduling.py: the optimal-time advisor *)

\* weekday -> <<hour, minute, reason>>, ...
OPTIMAL_TIMES ==
    [wd \in 0..(DaysPerWeek - 1) |->
        CASE wd = 0 -> << <<13, 0, "Monday afternoon - 4-5x higher engagement">> >>
          [] wd = 1 -> << <<10, 0, "Tuesday mid-morning">>,
                          <<12, 0, "Tuesday lunchtime">> >>
          [] wd = 2 -> << <<10, 0, "Wednesday 10 AM - peak engagement time">>,
                          <<12, 0, "Wednesday noon">>,
                          <<18, 0, "Wednesday evening">> >>
          [] wd = 3 -> << <<10, 0, "Thursday morning">>,
                          <<17, 0, "Thursday evening">> >>
          [] wd = 4 -> << <<10, 0, "Friday morning">>,
                          <<17, 0, "Friday evening">> >>
          [] wd = 5 -> << <<11, 0, "Saturday late morning">>,
                          <<15, 0, "Saturday afternoon">> >>
          [] wd = 6 -> << <<11, 0, "Sunday late morning">>,
                          <<15, 0, "Sunday afternoon">> >>]

\* <<start hour, end hour, reason>>, ...
AVOID_TIMES ==
    << <<23, 6, "Late night to early morning - lowest engagement">>,
       <<13, 16, "Weekday afternoons - deep work block">> >>

\* the index a for loop that returns at its first hit stops at
FirstOf(S) == CHOOSE i \in S : \A j \in S : i <= j

Abs(n) == IF n < 0 THEN 0 - n ELSE n

\* the for loop over AVOID_TIMES: the windows the hour falls in
AvoidHits(hour) ==
    {i \in 1..Len(AVOID_TIMES) :
        AVOID_TIMES[i][1] <= hour /\ hour < AVOID_TIMES[i][2]}

\* the slots at the hour itself
OptimalHitsExact(today_times, hour) ==
    {i \in 1..Len(today_times) : hour = today_times[i][1]}

\* the for loop over today's optimal times: the slots within 1 hour
OptimalHits(today_times, hour) ==
    {i \in 1..Len(today_times) : Abs(hour - today_times[i][1]) <= 1}

_assess_current_time(now) ==
    LET hour        == now.hour
        weekday     == Weekday(now)
        today_times == OPTIMAL_TIMES[weekday]
        bad         == AvoidHits(hour)
        opt         == OptimalHits(today_times, hour)
    IN  IF bad # {}
        THEN [quality |-> "poor", score |-> 2,
              reason  |-> AVOID_TIMES[FirstOf(bad)][3]]
        ELSE IF opt # {}
        THEN LET opt_hour == today_times[FirstOf(opt)][1]
             IN  [quality |-> IF hour = opt_hour THEN "excellent" ELSE "good",
                  score   |-> IF hour = opt_hour THEN 9 ELSE 7,
                  reason  |-> today_times[FirstOf(opt)][3]]
        ELSE [quality |-> "okay", score |-> 5,
              reason  |-> "Not peak engagement time, but acceptable"]

\* now.replace(hour=hour, minute=minute, second=0, microsecond=0)
ReplaceTime(dt, hour) == [dt EXCEPT !.hour = hour]

\* dt + timedelta(days=n)
AddDays(dt, n) == [dt EXCEPT !.day = @ + n]

\* optimal_time > now, both of one day and one zone; now is on a full hour
LaterToday(slot, now) == 60 * slot[1] + slot[2] > 60 * now.hour

\* the words of a reason of OPTIMAL_TIMES, as the text spells them
Words(desc) ==
    CASE desc = "Monday afternoon - 4-5x higher engagement" ->
            <<"Monday", "afternoon", "-", "4-5x", "higher", "engagement">>
      [] desc = "Tuesday mid-morning" -> <<"Tuesday", "mid-morning">>
      [] desc = "Tuesday lunchtime" -> <<"Tuesday", "lunchtime">>
      [] desc = "Wednesday 10 AM - peak engagement time" ->
            <<"Wednesday", "10", "AM", "-", "peak", "engagement", "time">>
      [] desc = "Wednesday noon" -> <<"Wednesday", "noon">>
      [] desc = "Wednesday evening" -> <<"Wednesday", "evening">>
      [] desc = "Thursday morning" -> <<"Thursday", "morning">>
      [] desc = "Thursday evening" -> <<"Thursday", "evening">>
      [] desc = "Friday morning" -> <<"Friday", "morning">>
      [] desc = "Friday evening" -> <<"Friday", "evening">>
      [] desc = "Saturday late morning" -> <<"Saturday", "late", "morning">>
      [] desc = "Saturday afternoon" -> <<"Saturday", "afternoon">>
      [] desc = "Sunday late morning" -> <<"Sunday", "late", "morning">>
      [] desc = "Sunday afternoon" -> <<"Sunday", "afternoon">>

\* str.lower() of a word of the table
LowerWord(w) ==
    CASE w = "Monday" -> "monday"
      [] w = "Tuesday" -> "tuesday"
      [] w = "Wednesday" -> "wednesday"
      [] w = "Thursday" -> "thursday"
      [] w = "Friday" -> "friday"
      [] w = "Saturday" -> "saturday"
      [] w = "Sunday" -> "sunday"
      [] w = "AM" -> "am"
      [] OTHER -> w

\* "Peak" in desc: the text is read as it is spelled
HasPeakAsSpelled(desc) == \E i \in 1..Len(Words(desc)) : Words(desc)[i] = "Peak"

\* "peak" in desc.lower(); no word of the table has "peak" as a proper part,
\* so the text contains "peak" exactly when one of its words is "peak"
HasPeak(desc) ==
    \E i \in 1..Len(Words(desc)) : LowerWord(Words(desc)[i]) = "peak"

\* lines 60, 77
Priority(desc) == IF HasPeak(desc) THEN "high" ELSE "medium"

Recommendation(date, slot, relative) ==
    [datetime |-> IsoFormat(ReplaceTime(date, slot[1])),
     relative |-> relative,
     reason   |-> slot[3],
     priority |-> Priority(slot[3])]

\* recommendations[n:]
TakeFrom(seq, n) == IF Len(seq) <= n THEN <<>> ELSE SubSeq(seq, n + 1, Len(seq))

\* recommendations[:n]
Take(seq, n) == IF Len(seq) <= n THEN seq ELSE SubSeq(seq, 1, n)

\* lines 49-61, 68-79: a for loop appending one recommendation for each slot
Recommend(date, slots, relative) ==
    [i \in 1..Len(slots) |-> Recommendation(date, slots[i], relative)]

\* Wednesday at 10:00 sharp still counts as today
days_until_wednesday_after_10(today, hour) ==
    LET days == (2 - today) % DaysPerWeek
    IN  IF days = 0 /\ hour > 10 THEN DaysPerWeek ELSE days

\* lines 82-86
days_until_wednesday(today, hour) ==
    LET days == (2 - today) % DaysPerWeek
    IN  IF days = 0 /\ hour >= 10 THEN DaysPerWeek ELSE days

get_optimal_times(now) ==
    LET today          == Weekday(now)
        today_times    == OPTIMAL_TIMES[today]
        Remaining(slot) == LaterToday(slot, now)
        left           == SelectSeq(today_times, Remaining)
        tomorrow       == (today + 1) % DaysPerWeek
        tomorrow_date  == AddDays(now, 1)
        tomorrow_times == OPTIMAL_TIMES[tomorrow]
        recommendations ==
            Recommend(now, left, "today")
            \o Recommend(tomorrow_date, tomorrow_times, "tomorrow")
        next_wednesday == AddDays(now, days_until_wednesday(today, now.hour))
    IN  [current_time         |-> IsoFormat(now),
         current_time_quality |-> _assess_current_time(now),
         recommendations      |-> Take(recommendations, 5),
         best_time_this_week  |-> IsoFormat(ReplaceTime(next_wednesday, 10))]

-----------------------------------------------------------------------------
(* platforms/registry.py, platforms/bluesky.py, config/store.py *)

\* PLATFORMS.keys()
list_platforms == {"bluesky"}

\* get_platform(name).character_limit
character_limit(name) == CASE name = "bluesky" -> 300

\* no config.json is written by the operations modelled: the default applies
get_default_platform == "bluesky"

-----------------------------------------------------------------------------
(* tools/schedule_post.py: the scheduled-post store *)

\* an optional argument: Python's None, or a value
None(empty) == [none |-> TRUE, val |-> empty]
Some(v)     == [none |-> FALSE, val |-> v]

\* a key a record does not have yet: "posted_at", "url"
NoStamp == <<>>
NoUrl   == ""

\* what a call returns; error is the kind of the error message
Returned(op, success, error, value) ==
    [op |-> op, success |-> success, error |-> error, value |-> value]

\* line 19: the posts get_scheduled_posts keeps
IsListed(p, now) == StrGE(p.scheduled_for, now) \/ p.status = "posted"

get_scheduled_posts ==
    LET now == IsoFormat(NowLocal)
        Keep(p) == IsListed(p, now)
    IN  SelectSeq(posts, Keep)

list_scheduled_posts ==
    LET Pending(p) == p.status = "scheduled"
        pending    == SelectSeq(get_scheduled_posts, Pending)
        optimal    == get_optimal_times(NowIn(EasternOffset))
    IN  [pending_posts      |-> pending,
         count              |-> Len(pending),
         next_optimal_times |-> Take(optimal.recommendations, 3)]

\* line 142: the posts get_due_posts takes
IsDue(p, now) == p.status = "scheduled" /\ StrLE(p.scheduled_for, now)

get_due_posts ==
    LET now == IsoFormat(NowLocal)
        Due(p) == IsDue(p, now)
    IN  SelectSeq(posts, Due)

\* the length check off by one
ReachesLimit(content, platform) == content >= character_limit(platform)

\* line 55: the length check of schedule_post
ExceedsLimit(content, platform) == content > character_limit(platform)

\* lines 82-90; content is kept as its length, the text is never read
NewPost(content, platform, scheduled_for) ==
    [id            |-> StrfTime(NowLocal),
     content       |-> content,
     platform      |-> platform,
     scheduled_for |-> scheduled_for,
     created_at    |-> IsoFormat(NowLocal),
     status        |-> "scheduled",
     posted_at     |-> NoStamp,
     url           |-> NoUrl]

\* the time is taken from the advisor only when no time is given
ByAdvisorNoTime(scheduled_for, use_optimal_time) == scheduled_for.none

\* line 62: the time is taken from the advisor
ByAdvisor(scheduled_for, use_optimal_time) ==
    use_optimal_time \/ scheduled_for.none

\* lines 40-90, 100-104: what schedule_post returns when get_optimal_times()
\* has returned optimal
ScheduleWith(content, scheduled_for, platform, use_optimal_time, optimal) ==
    LET plat       == IF platform.none THEN get_default_platform ELSE platform.val
        by_advisor == ByAdvisor(scheduled_for, use_optimal_time)
        when       == IF by_advisor
                      THEN optimal.recommendations[1].datetime
                      ELSE scheduled_for.val
        Fail(kind) == Returned("schedule_post", FALSE, kind, <<>>)
    IN  IF plat \notin list_platforms
        THEN Fail("unknown platform")
        ELSE IF ExceedsLimit(content, plat)
        THEN Fail("content too long")
        ELSE IF by_advisor /\ optimal.recommendations = <<>>
        THEN Fail("no optimal time")
        ELSE IF ~by_advisor /\ ~IsIsoFormat(ReplaceZ(scheduled_for.val))
        THEN Fail("invalid datetime")
        ELSE Returned("schedule_post", TRUE, "", <<NewPost(content, plat, when)>>)

\* line 63: get_optimal_times() is called with its default zone, US/Eastern
ScheduleResult(content, scheduled_for, platform, use_optimal_time) ==
    ScheduleWith(content, scheduled_for, platform, use_optimal_time,
                 get_optimal_times(NowIn(EasternOffset)))

\* a call that fails returns before the file is read; lines 92-98 otherwise
Save(r) ==
    /\ result' = r
    /\ IF r.success
       THEN /\ Len(posts) < MaxPosts
            /\ posts' = Append(posts, r.value[1])
            /\ exists' = TRUE
       ELSE UNCHANGED <<exists, posts>>
    /\ UNCHANGED <<clock, localOffset, input>>

schedule_post(content, scheduled_for, platform, use_optimal_time) ==
    Save(ScheduleResult(content, scheduled_for, platform, use_optimal_time))

\* the test of the for loop negated
MatchingOthers(post_id) == {i \in 1..Len(posts) : posts[i].id # post_id}

\* lines 125-126, 153-154: the records the for loop's test accepts
Matching(post_id) == {i \in 1..Len(posts) : posts[i].id = post_id}

\* a cancel that toggles: cancelling a cancelled post schedules it again
CancelToggled(post) ==
    [post EXCEPT !.status = IF @ = "cancelled" THEN "scheduled" ELSE "cancelled"]

\* line 127
Cancelled(post) == [post EXCEPT !.status = "cancelled"]

cancel_scheduled_post(post_id) ==
    /\ UNCHANGED <<clock, localOffset, input>>
    /\ IF Matching(post_id) # {}
       THEN LET i == FirstOf(Matching(post_id))
            IN  /\ posts' = [posts EXCEPT ![i] = Cancelled(posts[i])]
                /\ exists' = TRUE
                /\ result' = Returned("cancel_scheduled_post", TRUE, "", <<>>)
       ELSE /\ result' = Returned("cancel_scheduled_post", FALSE, "not found", <<>>)
            /\ UNCHANGED <<exists, posts>>

\* the posting time stamped into the wrong key
PostedRestamped(post, url) ==
    [post EXCEPT !.status = "posted",
                 !.scheduled_for = IsoFormat(NowLocal),
                 !.url = url]

\* lines 155-157
Posted(post, url) ==
    [post EXCEPT !.status = "posted",
                 !.posted_at = IsoFormat(NowLocal),
                 !.url = url]

mark_post_as_posted(post_id, url) ==
    /\ UNCHANGED <<clock, localOffset, input>>
    /\ IF Matching(post_id) # {}
       THEN LET i == FirstOf(Matching(post_id))
            IN  /\ posts' = [posts EXCEPT ![i] = Posted(posts[i], url)]
                /\ exists' = TRUE
                /\ result' = Returned("mark_post_as_posted", TRUE, "", <<>>)
       ELSE /\ result' = Returned("mark_post_as_posted", FALSE, "not found", <<>>)
            /\ UNCHANGED <<exists, posts>>

-----------------------------------------------------------------------------
(* The calls and their arguments *)

\* Tuesday 2025-09-02, 09:00 in US/Eastern
StartClock == HoursPerDay + 9 - EasternOffset

\* the machine runs in US/Eastern or in UTC
LocalOffsets == {EasternOffset, 0}

\* len(content): at the limit of bluesky, one over it
Contents == {character_limit("bluesky"), character_limit("bluesky") + 1}

Platforms == {None(""), Some("bluesky"), Some("mastodon")}

\* scheduled_for: None, "Z" (no ISO datetime) and "02T10"
Times ==
    {None(<<>>),
     Some(<<Ord("Z")>>),
     Some(TwoDigits(2) \o <<Ord("T")>> \o TwoDigits(10))}

Urls == {"https://bsky.app/profile/me/post/1"}

\* the ids in the store, and one that is in no store
PostIds == {posts[i].id : i \in 1..Len(posts)} \cup {<<Ord("x")>>}

Schedule ==
    \E content \in Contents, scheduled_for \in Times,
       platform \in Platforms, use_optimal_time \in BOOLEAN :
        schedule_post(content, scheduled_for, platform, use_optimal_time)

Cancel == \E post_id \in PostIds : cancel_scheduled_post(post_id)

MarkPosted == \E post_id \in PostIds, url \in Urls : mark_post_as_posted(post_id, url)

ListPending ==
    /\ result' = Returned("list_scheduled_posts", TRUE, "", list_scheduled_posts)
    /\ UNCHANGED <<exists, posts, clock, localOffset, input>>

DuePosts ==
    /\ result' = Returned("get_due_posts", TRUE, "", get_due_posts)
    /\ UNCHANGED <<exists, posts, clock, localOffset, input>>

\* time passes
Tick ==
    /\ clock < StartClock + MaxTicks
    /\ clock' = clock + 1
    /\ UNCHANGED <<exists, posts, localOffset, input, result>>

Init ==
    /\ exists = FALSE
    /\ posts = <<>>
    /\ clock = StartClock
    /\ localOffset \in LocalOffsets
    /\ input = <<>>
    /\ result = Returned("", TRUE, "", <<>>)

Next == Schedule \/ Cancel \/ MarkPosted \/ ListPending \/ DuePosts \/ Tick

Spec == Init /\ [][Next]_vars

-----------------------------------------------------------------------------
(* The advisor alone, at every hour of a week *)

\* Monday 2025-09-01 00:00 to Sunday 2025-09-07 23:00 in US/Eastern
AdvisorClocks ==
    {h - EasternOffset : h \in 0..(DaysPerWeek * HoursPerDay - 1)}

AssessCurrentTime ==
    /\ result' = Returned("_assess_current_time", TRUE, "",
                          _assess_current_time(NowIn(EasternOffset)))
    /\ UNCHANGED <<exists, posts, clock, localOffset, input>>

GetOptimalTimes ==
    /\ result' = Returned("get_optimal_times", TRUE, "",
                          get_optimal_times(NowIn(EasternOffset)))
    /\ UNCHANGED <<exists, posts, clock, localOffset, input>>

InitAdvisor ==
    /\ exists = FALSE
    /\ posts = <<>>
    /\ clock \in AdvisorClocks
    /\ localOffset = EasternOffset
    /\ input = <<>>
    /\ result = Returned("", TRUE, "", <<>>)

NextAdvisor == AssessCurrentTime \/ GetOptimalTimes \/ Schedule

SpecAdvisor == InitAdvisor /\ [][NextAdvisor]_vars

\* "2025-09-02T13:00:00Z": 13:00 UTC on the day of StartClock, which
\* fromisoformat accepts once the Z is replaced (line 74)
ZuluTime == TwoDigits(2) \o <<Ord("T")>> \o TwoDigits(13) \o <<Ord("Z")>>

\* lines 82-90: the record schedule_post(content, ZuluTime) stored when it was
\* called one day before StartClock on a machine of this UTC offset
StoredYesterday(off) ==
    LET then == WallTime(StartClock - HoursPerDay, off)
    IN  [id            |-> StrfTime(then),
         content       |-> character_limit("bluesky"),
         platform      |-> get_default_platform,
         scheduled_for |-> ZuluTime,
         created_at    |-> IsoFormat(then),
         status        |-> "scheduled",
         posted_at     |-> NoStamp,
         url           |-> NoUrl]

\* the store holds a record of the day before
InitStored ==
    /\ exists = TRUE
    /\ localOffset \in LocalOffsets
    /\ posts = <<StoredYesterday(localOffset)>>
    /\ clock = StartClock
    /\ input = <<>>
    /\ result = Returned("", TRUE, "", <<>>)

SpecStored == InitStored /\ [][Next]_vars

-----------------------------------------------------------------------------
(* git/history.py: the activity aggregator *)

\* the longest commit sequence drawn
MaxCommits == 3

\* the elements of a sequence
Range(seq) == {seq[i] : i \in 1..Len(seq)}

RECURSIVE SortedDescending(_)
\* sorted(S, reverse=True)
SortedDescending(S) ==
    IF S = {}
    THEN <<>>
    ELSE LET last == CHOOSE x \in S : \A y \in S : StrLE(y, x)
         IN  <<last>> \o SortedDescending(S \ {last})

RECURSIVE Sorted(_)
\* sorted(S) of a set of str
Sorted(S) ==
    IF S = {}
    THEN <<>>
    ELSE LET first == CHOOSE x \in S : \A y \in S : StrLE(x, y)
         IN  <<first>> \o Sorted(S \ {first})

RECURSIVE Total(_, _)
\* sum(field(c) for c in commits)
Total(commits, field) ==
    IF commits = <<>>
    THEN 0
    ELSE Head(commits)[field] + Total(Tail(commits), field)

\* commit.date.strftime("%Y-%m-%d"): "2025-09-" is left out
DateKey(dt) == TwoDigits(dt.day)

\* the commit goes to the front of its day
AddToDayFirst(grouped, key, commit) ==
    IF key \in DOMAIN grouped
    THEN [grouped EXCEPT ![key] = <<commit>> \o @]
    ELSE grouped @@ (key :> <<commit>>)

\* lines 124-126: the body of the for loop of group_commits_by_day
AddToDay(grouped, key, commit) ==
    IF key \in DOMAIN grouped
    THEN [grouped EXCEPT ![key] = Append(@, commit)]
    ELSE grouped @@ (key :> <<commit>>)

RECURSIVE GroupInto(_, _)
\* the for loop of group_commits_by_day over the commits left
GroupInto(grouped, commits) ==
    IF commits = <<>>
    THEN grouped
    ELSE GroupInto(AddToDay(grouped, DateKey(Head(commits).date), Head(commits)),
                   Tail(commits))

\* a dict is a function of its keys; the empty dict is <<>>
group_commits_by_day(commits) == GroupInto(<<>>, commits)

get_activity_summary(commits) ==
    IF commits = <<>>
    THEN [total_commits    |-> 0,
          files_changed    |-> <<>>,
          total_insertions |-> 0,
          total_deletions  |-> 0,
          date_range       |-> None(<<>>)]
    ELSE LET all_files ==
                 UNION {Range(commits[i].files_changed) : i \in 1..Len(commits)}
         IN  [total_commits    |-> Len(commits),
              files_changed    |-> Sorted(all_files),
              total_insertions |-> Total(commits, "insertions"),
              total_deletions  |-> Total(commits, "deletions"),
              date_range       |->
                  Some([oldest |-> IsoFormat(commits[Len(commits)].date),
                        newest |-> IsoFormat(commits[1].date)])]

\* datetime.fromtimestamp(commit.committed_date): naive local time
CommitDates ==
    {[day |-> d[1], hour |-> d[2], aware |-> FALSE, offset |-> 0] :
        d \in {<<1, 23>>, <<2, 0>>, <<2, 9>>}}

\* list(stats.files.keys())
FileLists ==
    {<<Str(<<"b">>), Str(<<"a">>)>>, <<Str(<<"a", "b">>), Str(<<"b">>)>>}

\* <<insertions, deletions>> of a commit
Stats == {<<0, 0>>, <<2, 1>>}

\* the CommitInfo records drawn; hash, short_hash, message and author are
\* read by neither function and are left out
Commits ==
    {[date          |-> date,
      files_changed |-> files,
      insertions    |-> stat[1],
      deletions     |-> stat[2]] :
        date \in CommitDates, files \in FileLists, stat \in Stats}

CommitSeqs == UNION {[1..n -> Commits] : n \in 0..MaxCommits}

GetActivitySummary ==
    /\ result' = Returned("get_activity_summary", TRUE, "",
                          get_activity_summary(input))
    /\ UNCHANGED <<exists, posts, clock, localOffset, input>>

GroupCommitsByDay ==
    /\ result' = Returned("group_commits_by_day", TRUE, "",
                          group_commits_by_day(input))
    /\ UNCHANGED <<exists, posts, clock, localOffset, input>>

InitHistory ==
    /\ exists = FALSE
    /\ posts = <<>>
    /\ clock = StartClock
    /\ localOffset = EasternOffset
    /\ input \in CommitSeqs
    /\ result = Returned("", TRUE, "", <<>>)

NextHistory == GetActivitySummary \/ GroupCommitsByDay

SpecHistory == InitHistory /\ [][NextHistory]_vars

-----------------------------------------------------------------------------
(* git/history.py: parse_since *)

\* str.lower(), for ASCII
Lower(s) ==
    [i \in 1..Len(s) |->
        IF Ord("A") <= s[i] /\ s[i] <= Ord("Z") THEN s[i] + 32 ELSE s[i]]

IsSpace(k) == k = Ord(" ")

RECURSIVE Strip(_)
\* str.strip()
Strip(s) ==
    IF s = <<>> THEN <<>>
    ELSE IF IsSpace(Head(s)) THEN Strip(Tail(s))
    ELSE IF IsSpace(s[Len(s)]) THEN Strip(SubSeq(s, 1, Len(s) - 1))
    ELSE s

RECURSIVE Split(_)
\* str.split(): the runs of characters between runs of whitespace
Split(s) ==
    IF s = <<>> THEN <<>>
    ELSE IF IsSpace(Head(s)) THEN Split(Tail(s))
    ELSE LET spaces == {i \in 1..Len(s) : IsSpace(s[i])}
             end    == IF spaces = {} THEN Len(s) + 1 ELSE FirstOf(spaces)
         IN  <<SubSeq(s, 1, end - 1)>> \o Split(SubSeq(s, end, Len(s)))

\* the digits of an int literal: what follows an optional sign
Digits(tok) ==
    IF tok # <<>> /\ Head(tok) \in {Ord("+"), Ord("-")} THEN Tail(tok) ELSE tok

\* int(tok) does not raise ValueError; the strings drawn have no underscore
\* and no digit outside ASCII
IsInt(tok) ==
    /\ Digits(tok) # <<>>
    /\ \A i \in 1..Len(Digits(tok)) : IsDigit(Digits(tok)[i])

RECURSIVE DecimalVal(_)
DecimalVal(digits) ==
    IF digits = <<>>
    THEN 0
    ELSE 10 * DecimalVal(SubSeq(digits, 1, Len(digits) - 1))
         + DigitVal(digits[Len(digits)])

\* int(tok), for tok that parses
IntVal(tok) ==
    IF Head(tok) = Ord("-") THEN 0 - DecimalVal(Digits(tok))
                            ELSE DecimalVal(Digits(tok))

RECURSIVE RStrip(_, _)
\* str.rstrip(c)
RStrip(s, c) ==
    IF s # <<>> /\ s[Len(s)] = c THEN RStrip(SubSeq(s, 1, Len(s) - 1), c) ELSE s

\* timedelta.max.days
MaxDeltaDays == 999999999

\* date(2025, 9, 1).toordinal(): day 1 is 0001-01-01, datetime.min
SeptemberOrdinal == 739495

\* datetime.max.toordinal(): 9999-12-31
MaxOrdinal == 3652059

\* a value returned, or the exception raised in its place
Value(v)      == [raised |-> "", value |-> v]
Raised(error) == [raised |-> error, value |-> <<>>]

\* timedelta(days=days, hours=hours): hours are carried into days
Timedelta(days, hours) ==
    LET carried == days + (hours \div HoursPerDay)
    IN  IF Abs(carried) > MaxDeltaDays
        THEN Raised("OverflowError")
        ELSE Value([days |-> carried, hours |-> hours % HoursPerDay])

\* dt - delta, for a naive dt; a datetime has a year from 1 to 9999
Minus(dt, delta) ==
    LET h   == dt.hour - delta.hours
        day == dt.day - delta.days - (IF h < 0 THEN 1 ELSE 0)
    IN  IF SeptemberOrdinal + day - 1 \notin 1..MaxOrdinal
        THEN Raised("OverflowError")
        ELSE Value([dt EXCEPT !.day = day, !.hour = h % HoursPerDay])

\* now - timedelta(days=days, hours=hours)
Ago(now, days, hours) ==
    LET delta == Timedelta(days, hours)
    IN  IF delta.raised # "" THEN delta ELSE Minus(now, delta.value)

\* now is datetime.now() of line 44
parse_since(since, now) ==
    LET parts   == Split(Strip(Lower(since)))
        amount  == IntVal(parts[1])
        unit    == RStrip(parts[2], Ord("s"))
        default == Ago(now, 7, 0)
    IN  IF Len(parts) = 2 /\ IsInt(parts[1])
        THEN CASE unit = Str(<<"d", "a", "y">>) -> Ago(now, amount, 0)
               [] unit = Str(<<"w", "e", "e", "k">>) ->
                      Ago(now, DaysPerWeek * amount, 0)
               [] unit = Str(<<"m", "o", "n", "t", "h">>) ->
                      Ago(now, amount * 30, 0)
               [] unit = Str(<<"h", "o", "u", "r">>) -> Ago(now, 0, amount)
               [] OTHER -> default
        ELSE default

\* the since arguments drawn
SinceStrings ==
    {Str(chars) : chars \in {
        <<"7", " ", "d", "a", "y", "s">>,
        <<"1", " ", "d", "a", "y">>,
        <<"2", " ", "w", "e", "e", "k", "s">>,
        <<"3", " ", "m", "o", "n", "t", "h", "s">>,
        <<"1", "2", " ", "h", "o", "u", "r", "s">>,
        <<"2", " ", "W", "E", "E", "K", "S">>,
        <<" ", "2", " ", " ", "w", "e", "e", "k", "s", " ">>,
        <<"-", "2", " ", "d", "a", "y", "s">>,
        <<"3", " ", "d", "a", "y", "s", "s">>,
        <<"8", "0", "0", "0", "0", "0", " ", "d", "a", "y", "s">>,
        <<>>,
        <<"d", "a", "y", "s">>,
        <<"2", " ", "w", "e", "e", "k", "s", " ", "a", "g", "o">>,
        <<"t", "w", "o", " ", "w", "e", "e", "k", "s">>,
        <<"2", " ", "y", "e", "a", "r", "s">>,
        <<"2", " ", "s">>}}

\* the hours of a day at which parse_since is called
SinceClocks == {StartClock + h : h \in 0..(HoursPerDay - 1)}

ParseSince ==
    /\ LET r == parse_since(input, NowLocal)
       IN  result' = Returned("parse_since", r.raised = "", r.raised, r.value)
    /\ UNCHANGED <<exists, posts, clock, localOffset, input>>

InitSince ==
    /\ exists = FALSE
    /\ posts = <<>>
    /\ clock \in SinceClocks
    /\ localOffset \in LocalOffsets
    /\ input \in SinceStrings
    /\ result = Returned("", TRUE, "", <<>>)

NextSince == ParseSince

SpecSince == InitSince /\ [][NextSince]_vars

-----------------------------------------------------------------------------
(* Properties of the scheduled-post store *)

Terminal == {"cancelled", "posted"}

\* the instant (hours UTC) a stored scheduled_for names: a naive datetime is
\* local time, as the naive datetime.now() it is compared with
Instant(s) ==
    LET dt == FromIsoFormat(ReplaceZ(s))
    IN  (dt.day - 1) * HoursPerDay + dt.hour
        - (IF dt.aware THEN dt.offset ELSE localOffset)

\* a cancel or mark_posted call with this id is the step taken
CancelOrMark(post_id) ==
    \/ cancel_scheduled_post(post_id)
    \/ \E url \in Urls : mark_post_as_posted(post_id, url)

\* C1: a record whose status is cancelled or posted keeps a status of these
\* two in every later store state of every call sequence: it is never
\* scheduled again.
C1_TerminalNeverScheduled ==
    [][\A i \in 1..Len(posts) :
          posts[i].status \in Terminal =>
              /\ i <= Len(posts')
              /\ posts'[i].status \in Terminal]_vars

\* C1: a posted record that was cancelled afterwards.
C1_Witness ==
    \E i \in 1..Len(posts) :
        posts[i].status = "cancelled" /\ posts[i].posted_at # NoStamp

\* C2: a posted record never becomes cancelled and a cancelled record never
\* becomes posted.
C2_NoTerminalToTerminal ==
    [][\A i \in 1..Len(posts) :
          i <= Len(posts') =>
              /\ posts[i].status = "posted" => posts'[i].status # "cancelled"
              /\ posts[i].status = "cancelled" => posts'[i].status # "posted"]_vars

\* C3: in every reachable state get_due_posts returns exactly the records
\* with status scheduled whose scheduled time is at or before now, in store
\* order.
C3_DueExactlyByTime ==
    LET DueByTime(p) ==
            p.status = "scheduled" /\ Instant(p.scheduled_for) <= clock
    IN  get_due_posts = SelectSeq(posts, DueByTime)

\* C4: a cancel or mark_posted call on the id of a record that is posted or
\* cancelled returns not-found or leaves that record as it was.
C4_TerminalRecordKept ==
    [][\A i \in 1..Len(posts) :
          (posts[i].status \in Terminal /\ CancelOrMark(posts[i].id)) =>
              \/ ~result'.success /\ result'.error = "not found"
              \/ posts'[i] = posts[i]]_vars

\* C5: cancel and mark_posted with an id no record of the store has return a
\* failure with a not-found error and leave the store as it was.
C5_UnknownIdNotFound ==
    [][\A post_id \in PostIds :
          ((\A i \in 1..Len(posts) : posts[i].id # post_id)
              /\ CancelOrMark(post_id)) =>
              /\ ~result'.success
              /\ result'.error = "not found"
              /\ posts' = posts
              /\ exists' = exists]_vars

\* C5: mark_posted failed with not-found on a store that holds records.
C5_Witness ==
    /\ result.op = "mark_post_as_posted"
    /\ ~result.success
    /\ result.error = "not found"
    /\ posts # <<>>

\* the arguments of a schedule call that validation turns down
FailsValidation(content, scheduled_for, platform, use_optimal_time) ==
    LET plat == IF platform.none THEN "bluesky" ELSE platform.val
    IN  \/ plat # "bluesky"
        \/ content > 300
        \/ /\ ~use_optimal_time
           /\ ~scheduled_for.none
           /\ ~IsIsoFormat(ReplaceZ(scheduled_for.val))

\* C6: a schedule call that fails validation (unknown platform, content
\* longer than the limit, explicit time that is no ISO datetime) returns a
\* failure, and a schedule call that returns a failure leaves the store as
\* it was; content of exactly the limit's length is not turned down for its
\* length.
C6_InvalidScheduleRejected ==
    /\ [](\A optimal \in {get_optimal_times(NowIn(EasternOffset))} :
           \A content \in Contents, scheduled_for \in Times,
              platform \in Platforms, use_optimal_time \in BOOLEAN :
              /\ FailsValidation(content, scheduled_for, platform,
                                 use_optimal_time) =>
                    ~ScheduleWith(content, scheduled_for, platform,
                                  use_optimal_time, optimal).success
              /\ content = 300 =>
                    ScheduleWith(content, scheduled_for, platform,
                                 use_optimal_time, optimal).error
                        # "content too long")
    /\ [][(result'.op = "schedule_post" /\ ~result'.success) =>
              (posts' = posts /\ exists' = exists)]_vars

\* C6: a schedule call was turned down for its length on a store that holds
\* records.
C6_Witness ==
    /\ result.op = "schedule_post"
    /\ ~result.success
    /\ result.error = "content too long"
    /\ posts # <<>>

\* C7: no two records of the store have the same id.
C7_UniqueIds ==
    \A i, j \in 1..Len(posts) : i # j => posts[i].id # posts[j].id

\* the keys cancel and mark_posted must leave alone
SameButStatus(p, q) ==
    /\ q.id = p.id
    /\ q.content = p.content
    /\ q.platform = p.platform
    /\ q.scheduled_for = p.scheduled_for
    /\ q.created_at = p.created_at

\* C8: no call removes or reorders records.  A successful schedule appends
\* one record with status scheduled and leaves the others as they were; a
\* successful cancel or mark_posted changes status, posted_at and url of
\* one record, the first with the id, and nothing else; every other step
\* leaves the records as they were.
C8_Frame ==
    [][IF clock' = clock /\ result'.op = "schedule_post" /\ result'.success
       THEN /\ Len(posts') = Len(posts) + 1
            /\ SubSeq(posts', 1, Len(posts)) = posts
            /\ posts'[Len(posts')].status = "scheduled"
            /\ posts'[Len(posts')] = result'.value[1]
       ELSE \/ posts' = posts
            \/ /\ Len(posts') = Len(posts)
               /\ result'.op \in {"cancel_scheduled_post", "mark_post_as_posted"}
               /\ result'.success
               /\ \E i \in 1..Len(posts) :
                     /\ \A j \in 1..Len(posts) : j # i => posts'[j] = posts[j]
                     /\ \A j \in 1..(i - 1) : posts[j].id # posts[i].id
                     /\ SameButStatus(posts[i], posts'[i])
                     /\ posts'[i].status \in Terminal]_vars

\* C8: two records share an id; a call on that id has changed the first and
\* left the second scheduled.
C8_Witness ==
    /\ result.op \in {"cancel_scheduled_post", "mark_post_as_posted"}
    /\ result.success
    /\ \E i, j \in 1..Len(posts) :
          /\ i < j
          /\ posts[i].id = posts[j].id
          /\ posts[i].status \in Terminal
          /\ posts[j].status = "scheduled"

\* C9: list_pending returns exactly the records with status scheduled whose
\* scheduled time is not earlier than now, and count is their number.
C9_PendingExactlyByTime ==
    LET PendingByTime(p) ==
            p.status = "scheduled" /\ Instant(p.scheduled_for) >= clock
    IN  /\ list_scheduled_posts.pending_posts = SelectSeq(posts, PendingByTime)
        /\ list_scheduled_posts.count = Len(SelectSeq(posts, PendingByTime))

-----------------------------------------------------------------------------
(* Properties of the advisor *)

\* C10: on every weekday, _assess_current_time at hour 23 returns quality
\* "poor" with score 2.
C10_Hour23Poor ==
    (result.op = "_assess_current_time" /\ NowIn(EasternOffset).hour = 23) =>
        /\ result.value.quality = "poor"
        /\ result.value.score = 2

\* the hour lies in an avoid window as the clock reads it: a window whose end
\* hour is below its start hour runs over midnight
InAvoidWindow(hour) ==
    \E i \in 1..Len(AVOID_TIMES) :
        LET start == AVOID_TIMES[i][1]
            end   == AVOID_TIMES[i][2]
        IN  IF start <= end
            THEN start <= hour /\ hour < end
            ELSE hour >= start \/ hour < end

\* C11: on every weekday, at every hour that lies in an avoid window,
\* _assess_current_time returns quality "poor" with score 2, also when the
\* hour is an optimal slot of that weekday or within 1 hour of one.
C11_AvoidPrecedence ==
    (result.op = "_assess_current_time"
        /\ InAvoidWindow(NowIn(EasternOffset).hour)) =>
        /\ result.value.quality = "poor"
        /\ result.value.score = 2

-----------------------------------------------------------------------------
(* Properties of schedule_post's choice of time *)

\* the answer of the advisor, and the answer it would give with no slot left
AdvisorAnswers ==
    LET optimal == get_optimal_times(NowIn(EasternOffset))
    IN  {optimal, [optimal EXCEPT !.recommendations = <<>>]}

\* C12: a schedule call with use_optimal_time set, or with no time, that
\* passes the platform and length checks stores the advisor's first
\* recommendation, which no other recommendation precedes, whatever time the
\* caller gave; when the advisor has no recommendation the call fails with
\* the no-optimal-time error; a call that fails stores nothing and a call that
\* succeeds stores the record it returns.
C12_AdvisorTimeStored ==
    /\ [](\A optimal \in AdvisorAnswers :
          /\ \A i \in 1..Len(optimal.recommendations) :
                Instant(optimal.recommendations[1].datetime)
                    <= Instant(optimal.recommendations[i].datetime)
          /\ \A use_optimal_time \in BOOLEAN, scheduled_for \in Times :
                (use_optimal_time \/ scheduled_for.none) =>
                    \A content \in Contents, platform \in Platforms :
                        LET plat == IF platform.none THEN get_default_platform
                                                     ELSE platform.val
                            r == ScheduleWith(content, scheduled_for, platform,
                                              use_optimal_time, optimal)
                        IN  (plat \in list_platforms
                                /\ content <= character_limit(plat)) =>
                               IF optimal.recommendations = <<>>
                               THEN ~r.success /\ r.error = "no optimal time"
                               ELSE /\ r.success
                                    /\ r.value[1].scheduled_for
                                         = optimal.recommendations[1].datetime)
    /\ [][(result'.op = "schedule_post" /\ clock' = clock) =>
            IF result'.success
            THEN posts' = Append(posts, result'.value[1])
            ELSE posts' = posts /\ exists' = exists]_vars

\* C12: the last call was a schedule call that stored a record whose time is
\* the advisor's first recommendation.
C12_Witness ==
    /\ result.op = "schedule_post"
    /\ result.success
    /\ posts # <<>>
    /\ posts[Len(posts)] = result.value[1]
    /\ posts[Len(posts)].scheduled_for
         = get_optimal_times(NowIn(EasternOffset)).recommendations[1].datetime

-----------------------------------------------------------------------------
(* Properties of get_optimal_times *)

\* hours since Monday 2025-09-01T00:00 on the clock of US/Eastern
EasternHours == clock + EasternOffset

\* the table slots of the day that is n days after today, each with the
\* minutes since Monday 00:00 US/Eastern at which it falls
SlotsOfDay(n, relative) ==
    LET day   == (EasternHours \div HoursPerDay) + n
        slots == OPTIMAL_TIMES[day % DaysPerWeek]
    IN  [i \in 1..Len(slots) |->
            [minute   |-> 60 * (day * HoursPerDay + slots[i][1]) + slots[i][2],
             reason   |-> slots[i][3],
             relative |-> relative]]

\* today's slots strictly later than now, then all of tomorrow's
SlotsAhead ==
    LET Later(slot) == slot.minute > 60 * EasternHours
    IN  SelectSeq(SlotsOfDay(0, "today"), Later) \o SlotsOfDay(1, "tomorrow")

\* C13: the recommendations of get_optimal_times are today's table slots
\* strictly later than now followed by all of tomorrow's, in strictly
\* ascending order of time, cut after the 5th, so that no slot left out is
\* earlier than one that is included; the priority is "high" exactly when the
\* reason has the word "peak" in any case, and "medium" otherwise.
C13_Recommendations ==
    result.op = "get_optimal_times" =>
        LET recs == result.value.recommendations
            At(i) == 60 * (Instant(recs[i].datetime) + EasternOffset)
        IN  /\ Len(recs) <= 5
            /\ Len(recs) = IF Len(SlotsAhead) <= 5 THEN Len(SlotsAhead) ELSE 5
            /\ \A i \in 1..Len(recs) :
                  /\ At(i) = SlotsAhead[i].minute
                  /\ recs[i].reason = SlotsAhead[i].reason
                  /\ recs[i].relative = SlotsAhead[i].relative
                  /\ recs[i].priority \in {"high", "medium"}
                  /\ recs[i].priority = "high" <=>
                        \E k \in 1..Len(Words(recs[i].reason)) :
                            LowerWord(Words(recs[i].reason)[k]) = "peak"
            /\ \A i, j \in 1..Len(recs) : i < j => At(i) < At(j)
            /\ \A i \in 1..Len(recs), k \in 1..Len(SlotsAhead) :
                  k > Len(recs) => At(i) <= SlotsAhead[k].minute

\* C13: get_optimal_times has returned 5 recommendations, of today and of
\* tomorrow, one of them of high priority.
C13_Witness ==
    /\ result.op = "get_optimal_times"
    /\ Len(result.value.recommendations) = 5
    /\ \E i, j, k \in 1..5 :
          /\ result.value.recommendations[i].relative = "today"
          /\ result.value.recommendations[j].relative = "tomorrow"
          /\ result.value.recommendations[k].priority = "high"

\* C14: best_time_this_week is a Wednesday at 10:00, strictly later than now
\* and at most 7 days after now: today when today is Wednesday and the hour
\* is before 10, the Wednesday one week later when today is Wednesday and the
\* hour is 10 or later, and otherwise the next Wednesday.
C14_BestTimeThisWeek ==
    result.op = "get_optimal_times" =>
        LET best  == FromIsoFormat(result.value.best_time_this_week)
            at    == Instant(result.value.best_time_this_week)
            today == EasternHours \div HoursPerDay
            hour  == EasternHours % HoursPerDay
            ahead == (best.day - 1) - today
        IN  /\ (best.day - 1) % DaysPerWeek = 2
            /\ best.hour = 10
            /\ best.aware /\ best.offset = EasternOffset
            /\ at > clock
            /\ at <= clock + DaysPerWeek * HoursPerDay
            /\ IF today % DaysPerWeek = 2
               THEN ahead = IF hour < 10 THEN 0 ELSE DaysPerWeek
               ELSE ahead \in 1..(DaysPerWeek - 1)

\* C14: get_optimal_times was called on a Wednesday at 10:00 or later and
\* has named the Wednesday one week later.
C14_Witness ==
    /\ result.op = "get_optimal_times"
    /\ (EasternHours \div HoursPerDay) % DaysPerWeek = 2
    /\ EasternHours % HoursPerDay >= 10
    /\ Instant(result.value.best_time_this_week) > clock + 6 * HoursPerDay

-----------------------------------------------------------------------------
(* Properties of the activity aggregator *)

RECURSIVE SumOfFirst(_, _, _)
\* the sum of a field over the first n records of a sequence
SumOfFirst(seq, field, n) ==
    IF n = 0 THEN 0 ELSE SumOfFirst(seq, field, n - 1) + seq[n][field]

\* C15: get_activity_summary returns total_commits equal to the length of the
\* sequence, total_insertions and total_deletions equal to the sums over the
\* records and files_changed equal to the union of the records' files, sorted
\* ascending and free of duplicates; for the empty sequence it returns count
\* 0, no files, zero totals and no date range.
C15_Summary ==
    result.op = "get_activity_summary" =>
        LET summary == result.value
            files   == summary.files_changed
        IN  /\ result.success
            /\ summary.total_commits = Len(input)
            /\ summary.total_insertions
                 = SumOfFirst(input, "insertions", Len(input))
            /\ summary.total_deletions
                 = SumOfFirst(input, "deletions", Len(input))
            /\ \A f \in Range(files) :
                  \E i \in 1..Len(input) : f \in Range(input[i].files_changed)
            /\ \A i \in 1..Len(input) :
                  Range(input[i].files_changed) \subseteq Range(files)
            /\ \A i, j \in 1..Len(files) :
                  i < j => files[i] # files[j] /\ StrLE(files[i], files[j])
            /\ input = <<>> =>
                  /\ summary.total_commits = 0
                  /\ files = <<>>
                  /\ summary.total_insertions = 0
                  /\ summary.total_deletions = 0
                  /\ summary.date_range.none

\* C15: a summary of 3 commits that name 3 files between them, one file in
\* more than one commit, with insertions and deletions.
C15_Witness ==
    /\ result.op = "get_activity_summary"
    /\ Len(input) = 3
    /\ Len(result.value.files_changed) = 3
    /\ \E i, j \in 1..3 :
          /\ i # j
          /\ Range(input[i].files_changed) \cap Range(input[j].files_changed) # {}
    /\ result.value.total_insertions > result.value.total_deletions
    /\ result.value.total_deletions > 0

\* the instant of a naive commit date, in hours of local time
DateHours(dt) == (dt.day - 1) * HoursPerDay + dt.hour

\* C16: for a sequence of commits that is not empty, in any order, the date
\* range of get_activity_summary has oldest equal to the earliest commit date
\* of the sequence and newest equal to the latest.
C16_DateRangeMinMax ==
    (result.op = "get_activity_summary" /\ input # <<>>) =>
        LET range == result.value.date_range
            dates == {input[i].date : i \in 1..Len(input)}
        IN  /\ ~range.none
            /\ \E d \in dates :
                  /\ \A e \in dates : DateHours(d) <= DateHours(e)
                  /\ range.val.oldest = IsoFormat(d)
            /\ \E d \in dates :
                  /\ \A e \in dates : DateHours(d) >= DateHours(e)
                  /\ range.val.newest = IsoFormat(d)

\* the commits of a sequence that fall on the calendar day of a key
OfDay(commits, key) ==
    LET OnDay(c) == TwoDigits(c.date.day) = key
    IN  SelectSeq(commits, OnDay)

\* C17: group_commits_by_day partitions its input and keeps its order: the
\* keys are the calendar dates of the input commits, so no bucket is empty,
\* and the bucket of a date holds the input commits of that date, each once,
\* in their input order; a commit is in no bucket but that of its own date.
C17_GroupByDayPartition ==
    result.op = "group_commits_by_day" =>
        LET grouped == result.value
        IN  /\ DOMAIN grouped
                 = {TwoDigits(input[i].date.day) : i \in 1..Len(input)}
            /\ \A key \in DOMAIN grouped :
                  /\ grouped[key] # <<>>
                  /\ grouped[key] = OfDay(input, key)

\* C17: 3 commits were grouped into 2 days; the day with 2 commits holds the
\* first and the last commit of the input, which differ.
C17_Witness ==
    /\ result.op = "group_commits_by_day"
    /\ Len(input) = 3
    /\ input[1] # input[3]
    /\ \E key \in DOMAIN result.value :
          /\ result.value[key] = <<input[1], input[3]>>
          /\ TwoDigits(input[2].date.day) # key

-----------------------------------------------------------------------------
(* Properties of parse_since *)

\* the hours a since argument reaches back: N days, 7N days, 30N days or N
\* hours for "N day(s)", "N week(s)", "N month(s)", "N hour(s)" in any case
\* and spacing, and 7 days for every other argument
HoursBack(since) ==
    LET parts == Split(Lower(since))
        unit  == RStrip(parts[2], Ord("s"))
    IN  IF Len(parts) = 2 /\ IsInt(parts[1])
        THEN CASE unit = Str(<<"d", "a", "y">>) ->
                      IntVal(parts[1]) * HoursPerDay
               [] unit = Str(<<"w", "e", "e", "k">>) ->
                      IntVal(parts[1]) * DaysPerWeek * HoursPerDay
               [] unit = Str(<<"m", "o", "n", "t", "h">>) ->
                      IntVal(parts[1]) * 30 * HoursPerDay
               [] unit = Str(<<"h", "o", "u", "r">>) -> IntVal(parts[1])
               [] OTHER -> DaysPerWeek * HoursPerDay
        ELSE DaysPerWeek * HoursPerDay

\* C18: parse_since does not fail, and returns now minus N days, 7N days, 30N
\* days or N hours for "N day(s)", "N week(s)", "N month(s)", "N hour(s)", and
\* now minus 7 days for every other argument.
C18_SinceCutoff ==
    result.op = "parse_since" =>
        /\ result.success
        /\ DateHours(result.value) = DateHours(NowLocal) - HoursBack(input)

-----------------------------------------------------------------------------
(* Properties of _assess_current_time outside the avoid windows *)

\* the hours of the optimal slots of the weekday now falls on
SlotHoursToday ==
    LET slots == OPTIMAL_TIMES[(EasternHours \div HoursPerDay) % DaysPerWeek]
    IN  {slots[i][1] : i \in 1..Len(slots)}

\* C19: on every weekday, at every hour that lies in no avoid window,
\* _assess_current_time returns "excellent" with score 9 when the hour is the
\* hour of one of the weekday's optimal slots, "good" with score 7 when it is
\* not but is within 1 hour of one, and "okay" with score 5 otherwise; it
\* never returns "good" at the hour of a slot.
C19_AssessOutsideAvoid ==
    LET hour == EasternHours % HoursPerDay
    IN  (result.op = "_assess_current_time" /\ ~InAvoidWindow(hour)) =>
            /\ result.value
                 \in {[quality |-> "excellent", score |-> 9,
                       reason  |-> result.value.reason],
                      [quality |-> "good", score |-> 7,
                       reason  |-> result.value.reason],
                      [quality |-> "okay", score |-> 5,
                       reason  |-> result.value.reason]}
            /\ result.value.quality = "excellent" <=> hour \in SlotHoursToday
            /\ result.value.quality = "good" <=>
                  /\ hour \notin SlotHoursToday
                  /\ \E h \in SlotHoursToday : hour - h \in {0 - 1, 1}

\* C19: _assess_current_time has returned "good" at an hour outside the
\* avoid windows that is next to a slot hour.
C19_Witness ==
    /\ result.op = "_assess_current_time"
    /\ ~InAvoidWindow(EasternHours % HoursPerDay)
    /\ (EasternHours % HoursPerDay) + 1 \in SlotHoursToday
    /\ result.value.quality = "good"

-----------------------------------------------------------------------------
(* Properties of schedule_post with the advisor, at every hour of a week *)

\* C20: on every weekday at every hour, get_optimal_times returns at least
\* one recommendation; a schedule call with use_optimal_time set, or with no
\* time, that passes the platform and length checks succeeds, no schedule
\* call ends in the no-optimal-time error, and a schedule call that succeeds
\* appends its record.
C20_AlwaysARecommendation ==
    /\ [](/\ get_optimal_times(NowIn(EasternOffset)).recommendations # <<>>
          /\ result.op = "get_optimal_times" =>
                Len(result.value.recommendations) >= 1
          /\ result.op = "schedule_post" => result.error # "no optimal time"
          /\ \A use_optimal_time \in BOOLEAN, scheduled_for \in Times :
                (use_optimal_time \/ scheduled_for.none) =>
                    \A content \in Contents, platform \in Platforms :
                        LET plat == IF platform.none THEN get_default_platform
                                                     ELSE platform.val
                        IN  (plat \in list_platforms
                                /\ content <= character_limit(plat)) =>
                               ScheduleResult(content, scheduled_for, platform,
                                              use_optimal_time).success)
    /\ [][(result'.op = "schedule_post" /\ result'.success) =>
            /\ Len(posts') = Len(posts) + 1
            /\ posts'[Len(posts')] = result'.value[1]
            /\ SubSeq(posts', 1, Len(posts)) = posts]_vars

\* C20: late in the evening, with no slot of today left, a schedule call has
\* stored a record whose time is a slot of tomorrow.
C20_Witness ==
    /\ result.op = "schedule_post"
    /\ result.success
    /\ NowIn(EasternOffset).hour >= 18
    /\ posts # <<>>
    /\ posts[Len(posts)] = result.value[1]
    /\ FromIsoFormat(posts[Len(posts)].scheduled_for).day
         = NowIn(EasternOffset).day + 1

-----------------------------------------------------------------------------
(* Properties of the two listings together *)

\* C21: at every instant, every record with status scheduled is returned by
\* list_scheduled_posts or by get_due_posts; it is returned by both only if
\* its scheduled time is now; and if its scheduled time is earlier than now
\* it is returned by get_due_posts, not by list_scheduled_posts, and a cancel
\* call on its id still finds a record.
C21_PendingOrDue ==
    \A i \in 1..Len(posts) :
        LET p       == posts[i]
            pending == p \in Range(list_scheduled_posts.pending_posts)
            due     == p \in Range(get_due_posts)
        IN  p.status = "scheduled" =>
                /\ pending \/ due
                /\ (pending /\ due) => Instant(p.scheduled_for) = clock
                /\ Instant(p.scheduled_for) < clock =>
                      /\ due
                      /\ ~pending
                      /\ \E j \in 1..Len(posts) : posts[j].id = p.id

====
